---- MODULE Spec2Model ----
(***************************************************************************)
(* State-machine model of the ExerciseFormCorrector React component        *)
(* (exercise-app/src/components/ExerciseFormCorrector.jsx, lines 1-460).   *)
(*                                                                         *)
(* Every event handler runs to completion on the single UI thread, so one  *)
(* action is one handler.  The preview handles (object URLs) a handler     *)
(* revokes and creates are followed step by step inside the action and the *)
(* largest number of handles that were live at any point is kept in        *)
(* peakLive.  The network request of analyzeForm is the only suspension:   *)
(* its start, its progress callbacks and its settlement are separate       *)
(* actions.                                                                *)
(***************************************************************************)
EXTENDS Integers, Sequences, FiniteSets, TLC

(* ------------------------------ bounds --------------------------------- *)

\* number of files accepted (picker changes and valid drops) in one run
MaxSelections == 2

\* number of analyze requests issued in one run
MaxRequests == 2

\* largest total byte count of an upload progress event
MaxTotal == 2

\* largest total byte count given to percentCompleted on its own
MaxBytes == 3

(* --------------------------- values and inputs ------------------------- *)

\* useState(null) / useRef(null): no file, no object URL, no analysis
NoFile == [id |-> 0, type |-> <<>>]

NoUrl == 0

NoAnalysis == [id |-> 0]

\* the prefix handleDrop tests the declared media type against
VideoPrefix == <<"v", "i", "d", "e", "o", "/">>

\* declared media types of the files a user can pick or drop, as character
\* sequences: a video type, two near misses of the prefix and the empty type
MediaTypes ==
  { <<"v", "i", "d", "e", "o", "/", "m", "p", "4">>,
    <<"v", "i", "d", "e", "o">>,
    <<"i", "m", "a", "g", "e", "/", "v", "i", "d", "e", "o", "/">>,
    <<>> }

\* the option values of the exercise selector
exercises == {"squat", "pushup", "lunge"}

\* the report is rendered under "analysis &&"
ReportShown(an) == an # NoAnalysis

\* bodies of 2xx responses (response.data)
Responses == { [id |-> 1, overall_score |-> 72],
               [id |-> 2, overall_score |-> 85] }

\* String.prototype.startsWith
startsWith(s, prefix) ==
  /\ Len(s) >= Len(prefix)
  /\ SubSeq(s, 1, Len(prefix)) = prefix

Max(a, b) == IF a >= b THEN a ELSE b

(* ------------------------------- state --------------------------------- *)

VARIABLES
  videoFile,        \* useState: the selected File, or NoFile
  exerciseType,     \* useState: the selected exercise
  analysis,         \* useState: the last successful response body, or NoAnalysis
  loading,          \* useState
  uploadProgress,   \* useState
  isDragging,       \* useState
  videoUrlRef,      \* useRef: the object URL kept for clean-up, or NoUrl
  videoRefMounted,  \* the <video> element is rendered (videoRef.current set)
  videoSrc,         \* videoRef.current.src
  effectPending,    \* videoFile changed; its re-render and effect are due
  liveUrls,         \* object URLs created and not revoked
  creates,          \* calls of URL.createObjectURL
  releases,         \* calls of URL.revokeObjectURL
  peakLive,         \* most object URLs live at any point so far
  selections,       \* files accepted so far (gives each File its identity)
  requests,         \* analyze requests in flight
  requestsIssued,   \* calls of axios.post
  alerts,           \* calls of alert
  failures,         \* requests that settled by failing
  lastOp,           \* the handler that ran last, and the branch it took
  mounted,          \* the component has not been discarded
  input,            \* the argument of a helper or render evaluated on its own
  output            \* what that helper or render returned

vars == <<videoFile, exerciseType, analysis, loading, uploadProgress, isDragging,
          videoUrlRef, videoRefMounted, videoSrc, effectPending, liveUrls,
          creates, releases, peakLive, selections, requests, requestsIssued,
          alerts, failures, lastOp, mounted, input, output>>

selectionVars == <<videoFile, videoUrlRef, videoSrc, effectPending, liveUrls,
                   creates, releases, peakLive>>

requestVars == <<analysis, loading, uploadProgress, requests, requestsIssued,
                 alerts, failures>>

\* what no handler of the mounted component changes
frameVars == <<mounted, input, output>>

\* no helper is being evaluated on its own
NoInput == [fn |-> "none"]

NoOutput == [fn |-> "none"]

componentVars == <<videoFile, exerciseType, analysis, loading, uploadProgress,
                   isDragging, videoUrlRef, videoRefMounted, videoSrc, effectPending,
                   liveUrls, creates, releases, peakLive, selections, requests,
                   requestsIssued, alerts, failures, lastOp, mounted>>

\* the component right after its first render
ComponentInit ==
  /\ videoFile = NoFile
  /\ exerciseType = "squat"
  /\ analysis = NoAnalysis
  /\ loading = FALSE
  /\ uploadProgress = 0
  /\ isDragging = FALSE
  /\ videoUrlRef = NoUrl
  /\ videoRefMounted = FALSE
  /\ videoSrc = NoUrl
  /\ effectPending = FALSE
  /\ liveUrls = {}
  /\ creates = 0
  /\ releases = 0
  /\ peakLive = 0
  /\ selections = 0
  /\ requests = {}
  /\ requestsIssued = 0
  /\ alerts = 0
  /\ failures = 0
  /\ lastOp = [op |-> "mount", ok |-> TRUE]
  /\ mounted = TRUE

Init ==
  /\ ComponentInit
  /\ input = NoInput
  /\ output = NoOutput

(* ------------------------- preview handle steps ------------------------ *)

\* "if (videoUrlRef.current) URL.revokeObjectURL(videoUrlRef.current)":
\* the live URLs after the clean-up of the previous URL
CleanUpPreviousSkipped(live, ref) == live

CleanUpPrevious(live, ref) == IF ref # NoUrl THEN live \ {ref} ELSE live

\* the calls of revokeObjectURL the clean-up makes
CleanUpCalls(ref) == IF ref # NoUrl THEN 1 ELSE 0

\* URL.createObjectURL returns a URL that was never handed out before
NewUrl == creates + 1

\* The component state an accepted selection sets: setVideoFile(file) is the
\* only setter the two handlers call, so the request state keeps its values.
SelectionStateResetsReport(file) ==
  /\ videoFile' = file
  /\ effectPending' = TRUE
  /\ analysis' = NoAnalysis
  /\ UNCHANGED <<loading, uploadProgress, requests, requestsIssued, alerts, failures>>

SelectionStateResetsProgress(file) ==
  /\ videoFile' = file
  /\ effectPending' = TRUE
  /\ uploadProgress' = 0
  /\ UNCHANGED <<analysis, loading, requests, requestsIssued, alerts, failures>>

SelectionState(file) ==
  /\ videoFile' = file
  /\ effectPending' = TRUE
  /\ UNCHANGED requestVars

\* The shared body of an accepted selection (handleDrop 46-61,
\* handleFileSelect 68-83): setVideoFile, revoke the previous URL, create the
\* new one, keep it in videoUrlRef and, when the <video> is rendered, play it.
AcceptSelection(file) ==
  LET live1 == CleanUpPrevious(liveUrls, videoUrlRef)
      live2 == live1 \cup {NewUrl}
  IN /\ SelectionState(file)
     /\ selections' = selections + 1
     /\ liveUrls' = live2
     /\ releases' = releases + CleanUpCalls(videoUrlRef)
     /\ creates' = creates + 1
     /\ peakLive' = Max(peakLive, Max(Cardinality(live1), Cardinality(live2)))
     /\ videoUrlRef' = NewUrl
     /\ videoSrc' = IF videoRefMounted THEN NewUrl ELSE videoSrc

\* A user event is dispatched only after the re-render and the effects of
\* the previous one have run.
UserEvent == ~effectPending

\* the File object of the next picker or drop event: a new object each time
NextFile(type) == [id |-> selections + 1, type |-> type]

(* ---------------------------- drag and drop ---------------------------- *)

handleDragEnter ==
  /\ lastOp' = [op |-> "handleDragEnter", ok |-> TRUE]
  /\ mounted
  /\ UNCHANGED frameVars
  /\ UserEvent
  /\ isDragging' = TRUE
  /\ UNCHANGED <<selectionVars, requestVars, exerciseType, videoRefMounted, selections>>

handleDragLeave ==
  /\ lastOp' = [op |-> "handleDragLeave", ok |-> TRUE]
  /\ mounted
  /\ UNCHANGED frameVars
  /\ UserEvent
  /\ isDragging' = FALSE
  /\ UNCHANGED <<selectionVars, requestVars, exerciseType, videoRefMounted, selections>>

handleDragOver ==
  /\ lastOp' = [op |-> "handleDragOver", ok |-> TRUE]
  /\ mounted
  /\ UNCHANGED frameVars
  /\ UserEvent
  /\ UNCHANGED <<selectionVars, requestVars, exerciseType, videoRefMounted, selections,
                 isDragging>>

\* "file && file.type.startsWith('video/')"
DropAcceptedAnyType(file) == file # NoFile

DropAccepted(file) == file # NoFile /\ startsWith(file.type, VideoPrefix)

handleDrop(file) ==
  /\ lastOp' = [op |-> "handleDrop", ok |-> DropAccepted(file)]
  /\ mounted
  /\ UNCHANGED frameVars
  /\ UserEvent
  /\ DropAccepted(file) => selections < MaxSelections
  /\ isDragging' = FALSE
  /\ IF DropAccepted(file)
       THEN AcceptSelection(file)
       ELSE UNCHANGED <<selectionVars, requestVars, selections>>
  /\ UNCHANGED <<exerciseType, videoRefMounted>>

(* ------------------------------ file picker ---------------------------- *)

\* "if (file)": the picker path does not look at the media type
PickAccepted(file) == file # NoFile

handleFileSelect(file) ==
  /\ lastOp' = [op |-> "handleFileSelect", ok |-> PickAccepted(file)]
  /\ mounted
  /\ UNCHANGED frameVars
  /\ UserEvent
  /\ PickAccepted(file) => selections < MaxSelections
  /\ IF PickAccepted(file)
       THEN AcceptSelection(file)
       ELSE UNCHANGED <<selectionVars, requestVars, selections>>
  /\ UNCHANGED <<exerciseType, videoRefMounted, isDragging>>

(* --------------------- re-render and useEffect([videoFile]) ------------ *)

\* The re-render after videoFile changed mounts the <video> element; the
\* effect then revokes the URL the handler created, creates another for the
\* same file and plays it.
videoFileEffect ==
  /\ lastOp' = [op |-> "videoFileEffect", ok |-> videoFile # NoFile]
  /\ mounted
  /\ UNCHANGED frameVars
  /\ effectPending
  /\ effectPending' = FALSE
  /\ videoRefMounted' = (videoFile # NoFile)
  /\ IF videoFile # NoFile
       THEN LET live1 == CleanUpPrevious(liveUrls, videoUrlRef)
                live2 == live1 \cup {NewUrl}
            IN /\ liveUrls' = live2
               /\ releases' = releases + CleanUpCalls(videoUrlRef)
               /\ creates' = creates + 1
               /\ peakLive' = Max(peakLive, Max(Cardinality(live1), Cardinality(live2)))
               /\ videoUrlRef' = NewUrl
               /\ videoSrc' = NewUrl
       ELSE UNCHANGED <<liveUrls, releases, creates, peakLive, videoUrlRef, videoSrc>>
  /\ UNCHANGED <<videoFile, requestVars, exerciseType, isDragging, selections>>

(* --------------------------- exercise selector ------------------------- *)

setExerciseType(value) ==
  /\ lastOp' = [op |-> "setExerciseType", ok |-> TRUE]
  /\ mounted
  /\ UNCHANGED frameVars
  /\ UserEvent
  /\ exerciseType' = value
  /\ UNCHANGED <<selectionVars, requestVars, videoRefMounted, isDragging, selections>>

(* ------------------------------ analyzeForm ---------------------------- *)

\* "if (!videoFile) return;"
NoVideoSelectedIgnored(vf) == FALSE

NoVideoSelected(vf) == vf = NoFile

\* the Analyze button: disabled={!videoFile || loading}
AnalyzeDisabledNoFileOnly(vf, ld) == vf = NoFile

AnalyzeDisabled(vf, ld) == vf = NoFile \/ ld

\* formData.append("video", videoFile); formData.append("exercise_type", exerciseType)
FormDataDefaultExercise(vf, et) == [video |-> vf, exercise_type |-> "squat"]

FormData(vf, et) == [video |-> vf, exercise_type |-> et]

\* analyzeForm up to its await: the early return, or setLoading(true),
\* setUploadProgress(0) and axios.post of the form data built from the
\* selection of this render
analyzeForm ==
  /\ lastOp' = [op |-> "analyzeForm", ok |-> ~NoVideoSelected(videoFile)]
  /\ mounted
  /\ UNCHANGED frameVars
  /\ IF NoVideoSelected(videoFile)
       THEN UNCHANGED <<loading, uploadProgress, requests, requestsIssued>>
       ELSE /\ loading' = TRUE
            /\ uploadProgress' = 0
            /\ requests' = requests \cup
                 {[id |-> requestsIssued + 1, body |-> FormData(videoFile, exerciseType)]}
            /\ requestsIssued' = requestsIssued + 1
  /\ UNCHANGED <<selectionVars, analysis, alerts, failures, exerciseType,
                 videoRefMounted, isDragging, selections>>

\* a click on the Analyze button, which the browser delivers only while the
\* button is enabled
AnalyzeButtonClick ==
  /\ UserEvent
  /\ ~AnalyzeDisabled(videoFile, loading)
  /\ requestsIssued < MaxRequests
  /\ analyzeForm

\* analyzeForm invoked while no video file is selected
AnalyzeWithoutSelection ==
  /\ UserEvent
  /\ videoFile = NoFile
  /\ requestsIssued < MaxRequests
  /\ analyzeForm

\* the same quotient rounded down instead
percentCompletedFloor(loaded, total) == (loaded * 100) \div total

\* Math.round((loaded * 100) / total) for 0 <= loaded and 0 < total:
\* Math.round rounds to the nearest integer, halves upwards
percentCompleted(loaded, total) == (2 * loaded * 100 + total) \div (2 * total)

\* onUploadProgress of a request in flight
onUploadProgress(r, loaded, total) ==
  /\ lastOp' = [op |-> "onUploadProgress", ok |-> TRUE]
  /\ mounted
  /\ UNCHANGED frameVars
  /\ r \in requests
  /\ uploadProgress' = percentCompleted(loaded, total)
  /\ UNCHANGED <<selectionVars, analysis, loading, requests, requestsIssued, alerts,
                 failures, exerciseType, videoRefMounted, isDragging, selections>>

\* The two values of Math.round(...) that are not integers, written as numbers
\* outside 0..100 that compare with 0 as the JavaScript values do:
\* NaN > 0 is false, Infinity > 0 is true.
NaN == 0 - 1

Infinity == 100 + 1

\* Math.round((loaded * 100) / total) when the transport does not know the
\* total: total is undefined (NaN whatever loaded is) or 0 (NaN for loaded = 0,
\* Infinity otherwise), as the transport reports it
percentCompletedUnknownTotal(loaded) ==
  IF loaded = 0 THEN {NaN} ELSE {NaN, Infinity}

\* onUploadProgress of a request in flight whose total size is unknown
onUploadProgressUnknownTotal(r, loaded) ==
  /\ lastOp' = [op |-> "onUploadProgressUnknownTotal", ok |-> FALSE]
  /\ mounted
  /\ UNCHANGED frameVars
  /\ r \in requests
  /\ uploadProgress' \in percentCompletedUnknownTotal(loaded)
  /\ UNCHANGED <<selectionVars, analysis, loading, requests, requestsIssued, alerts,
                 failures, exerciseType, videoRefMounted, isDragging, selections>>

\* try: setAnalysis(response.data)
setAnalysisDiscarded(data) == NoAnalysis

setAnalysis(data) == data

\* catch: console.error, alert("Analysis failed. Please try again.")
catchAlertsNone(n) == n

catchAlerts(n) == n + 1

\* finally: setLoading(false); setUploadProgress(0)
finallyUploadProgressKept(up) == up

finallyUploadProgress(up) == 0

finallyLoading == FALSE

\* the request resolves with a 2xx response
settleSuccess(r, data) ==
  /\ lastOp' = [op |-> "settleSuccess", ok |-> TRUE]
  /\ mounted
  /\ UNCHANGED frameVars
  /\ r \in requests
  /\ requests' = requests \ {r}
  /\ analysis' = setAnalysis(data)
  /\ loading' = finallyLoading
  /\ uploadProgress' = finallyUploadProgress(uploadProgress)
  /\ UNCHANGED <<selectionVars, requestsIssued, alerts, failures, exerciseType,
                 videoRefMounted, isDragging, selections>>

\* the request rejects: network error or non-2xx response
settleFailure(r) ==
  /\ lastOp' = [op |-> "settleFailure", ok |-> FALSE]
  /\ mounted
  /\ UNCHANGED frameVars
  /\ r \in requests
  /\ requests' = requests \ {r}
  /\ alerts' = catchAlerts(alerts)
  /\ failures' = failures + 1
  /\ loading' = finallyLoading
  /\ uploadProgress' = finallyUploadProgress(uploadProgress)
  /\ UNCHANGED <<selectionVars, analysis, requestsIssued, exerciseType,
                 videoRefMounted, isDragging, selections>>

(* ------------------------------- unmount ------------------------------- *)

\* the clean-up of useEffect(..., []): "if (videoUrlRef.current)
\* URL.revokeObjectURL(videoUrlRef.current)"
unmountCleanUpMissing(live, ref) == live

unmountCleanUp(live, ref) == IF ref # NoUrl THEN live \ {ref} ELSE live

\* The component is discarded.  React runs the effects of the last commit
\* before it unmounts, then the clean-up above; the state setters of a
\* discarded component do nothing, so the model follows it no further.
unmount ==
  /\ lastOp' = [op |-> "unmount", ok |-> videoUrlRef # NoUrl]
  /\ mounted
  /\ ~effectPending
  /\ mounted' = FALSE
  /\ liveUrls' = unmountCleanUp(liveUrls, videoUrlRef)
  /\ releases' = releases + CleanUpCalls(videoUrlRef)
  /\ UNCHANGED <<videoFile, videoUrlRef, videoSrc, effectPending, creates, peakLive,
                 requestVars, exerciseType, videoRefMounted, isDragging, selections,
                 input, output>>

(* ---------------------------- specification ---------------------------- *)

Next ==
  \/ handleDragEnter
  \/ handleDragLeave
  \/ handleDragOver
  \/ \E t \in MediaTypes : handleDrop(NextFile(t))
  \/ handleDrop(NoFile)
  \/ \E t \in MediaTypes : handleFileSelect(NextFile(t))
  \/ handleFileSelect(NoFile)
  \/ videoFileEffect
  \/ \E v \in exercises : setExerciseType(v)
  \/ AnalyzeButtonClick
  \/ AnalyzeWithoutSelection
  \/ \E r \in requests : \E total \in 1..MaxTotal : \E loaded \in 0..total :
       onUploadProgress(r, loaded, total)
  \/ \E r \in requests : \E loaded \in 0..MaxTotal :
       onUploadProgressUnknownTotal(r, loaded)
  \/ \E r \in requests : \E data \in Responses : settleSuccess(r, data)
  \/ \E r \in requests : settleFailure(r)
  \/ unmount

Spec == Init /\ [][Next]_vars

(* ------------------------- the rendered report ------------------------ *)

\* JavaScript values of the fields of a response body
Undefined == [kind |-> "undefined"]

Str(text) == [kind |-> "string", text |-> text]

Arr(items) == [kind |-> "array", items |-> items]

\* an object, as the sequence of its [key, value] entries (Object.entries)
Obj(entries) == [kind |-> "object", entries |-> entries]

\* the truthiness "&&" tests: undefined and "" are falsy, every array and
\* every object is truthy, the empty ones included
Truthy(v) ==
  CASE v.kind = "undefined" -> FALSE
    [] v.kind = "string" -> v.text # ""
    [] OTHER -> TRUE

\* Array.prototype.length
Length(v) == Len(v.items)

\* analysis.whats_right && analysis.whats_right.length > 0
showWhatsRight(an) == Truthy(an.whats_right) /\ Length(an.whats_right) > 0

\* analysis.corrections_needed && analysis.corrections_needed.length > 0
showCorrections(an) ==
  Truthy(an.corrections_needed) /\ Length(an.corrections_needed) > 0

\* analysis.detailed_breakdown &&
showDetailedBreakdown(an) == Truthy(an.detailed_breakdown)

\* analysis.improvement_tips && analysis.improvement_tips.length > 0
showImprovementTips(an) ==
  Truthy(an.improvement_tips) /\ Length(an.improvement_tips) > 0

\* analysis.overlay_url &&
showOverlay(an) == Truthy(an.overlay_url)

\* the sections of the report the render puts on the page
Render(an) ==
  [report |-> ReportShown(an),
   whats_right |-> ReportShown(an) /\ showWhatsRight(an),
   corrections_needed |-> ReportShown(an) /\ showCorrections(an),
   detailed_breakdown |-> ReportShown(an) /\ showDetailedBreakdown(an),
   improvement_tips |-> ReportShown(an) /\ showImprovementTips(an),
   overlay_url |-> ReportShown(an) /\ showOverlay(an)]

\* values a response body can carry in a list field, in detailed_breakdown
\* and in overlay_url: absent, empty and non-empty
ListValues == {Undefined, Arr(<<>>), Arr(<<"item">>)}

BreakdownValues ==
  {Undefined, Obj(<<>>), Obj(<<[key |-> "depth", score |-> 72]>>)}

UrlValues == {Undefined, Str(""), Str("/overlay/1.mp4")}

\* the response bodies whose rendering is examined
Payloads ==
  [id : {1}, overall_score : {72},
   whats_right : ListValues, corrections_needed : ListValues,
   detailed_breakdown : BreakdownValues, improvement_tips : ListValues,
   overlay_url : UrlValues]

(* ------------------- helpers and render on their own ------------------- *)

\* the render of the report for a given analysis
evalRender ==
  /\ input.fn = "render"
  /\ output = NoOutput
  /\ output' = [fn |-> "render", view |-> Render(input.analysis)]
  /\ UNCHANGED <<componentVars, input>>

(* --------------------------- score and severity ------------------------ *)

\* the boundaries themselves fall into the lower class
getScoreColorStrict(score) ==
  IF score > 80 THEN "text-green-600"
  ELSE IF score > 60 THEN "text-yellow-600"
  ELSE "text-red-600"

getScoreColor(score) ==
  IF score >= 80 THEN "text-green-600"
  ELSE IF score >= 60 THEN "text-yellow-600"
  ELSE "text-red-600"

\* className of the overall score: getScoreColor(analysis.overall_score)
overallScoreClass(an) == getScoreColor(an.overall_score)

\* className of one aspect of the breakdown: getScoreColor(data.score)
aspectScoreClass(data) == getScoreColor(data.score)

\* scores of a response: whole percentages
Scores == 0..100

\* switch (severity), which compares with ===
getSeverityColor(severity) ==
  CASE severity = Str("critical") -> "bg-red-100 border-red-400 text-red-700"
    [] severity = Str("warning") -> "bg-yellow-100 border-yellow-400 text-yellow-700"
    [] severity = Str("info") -> "bg-blue-100 border-blue-400 text-blue-700"
    [] OTHER -> "bg-gray-100 border-gray-400 text-gray-700"

\* className of the card of a correction
severityCardClass(correction) == getSeverityColor(correction.severity)

\* className of the badge that prints the severity inside the card
severityBadgeClass(correction) ==
  IF correction.severity = Str("critical") THEN "bg-red-200 text-red-800"
  ELSE IF correction.severity = Str("warning") THEN "bg-yellow-200 text-yellow-800"
  ELSE "bg-blue-200 text-blue-800"

\* severities of a correction: the three named ones, two other strings, none
Severities ==
  {Str("critical"), Str("warning"), Str("info"), Str("minor"), Str("Critical"),
   Undefined}

\* the two places a score is coloured, for one score
evalScoreColor ==
  /\ input.fn = "getScoreColor"
  /\ output = NoOutput
  /\ output' = [fn |-> "getScoreColor",
                overall |-> overallScoreClass([overall_score |-> input.score]),
                aspect |-> aspectScoreClass([score |-> input.score])]
  /\ UNCHANGED <<componentVars, input>>

\* the two places the severity of a correction is styled, for one correction
evalSeverityColor ==
  /\ input.fn = "getSeverityColor"
  /\ output = NoOutput
  /\ output' = [fn |-> "getSeverityColor",
                card |-> severityCardClass(input.correction),
                badge |-> severityBadgeClass(input.correction)]
  /\ UNCHANGED <<componentVars, input>>

\* the computation of onUploadProgress for given byte counters
evalPercentCompleted ==
  /\ input.fn = "percentCompleted"
  /\ output = NoOutput
  /\ output' = [fn |-> "percentCompleted",
                value |-> percentCompleted(input.loaded, input.total)]
  /\ UNCHANGED <<componentVars, input>>

HelperInputs ==
  {[fn |-> "render", analysis |-> an] : an \in Payloads}
    \cup {[fn |-> "percentCompleted", loaded |-> l, total |-> t] :
            l \in 0..MaxBytes, t \in 1..MaxBytes}
    \cup {[fn |-> "getScoreColor", score |-> sc] : sc \in Scores}
    \cup {[fn |-> "getSeverityColor", correction |-> [severity |-> sv]] :
            sv \in Severities}

HelperInit ==
  /\ ComponentInit
  /\ input \in HelperInputs
  /\ input.fn = "percentCompleted" => input.loaded <= input.total
  /\ output = NoOutput

HelperNext ==
  \/ evalRender
  \/ evalPercentCompleted
  \/ evalScoreColor
  \/ evalSeverityColor

HelperSpec == HelperInit /\ [][HelperNext]_vars

(* ------------------------------- claims -------------------------------- *)

\* the declared media types that do not begin with "video/"
NonVideoTypes ==
  { t \in MediaTypes : Len(t) < 6 \/ SubSeq(t, 1, 6) # <<"v", "i", "d", "e", "o", "/">> }

AcceptedSelectionRan == lastOp.op \in {"handleDrop", "handleFileSelect"} /\ lastOp.ok

\* C1: the preview handles created minus those released are at most 1 at
\* every point, also inside a handler between its release and its create;
\* after every accepted selection, and after the effect that follows it,
\* exactly one handle is live and it is the newest one, so every handle that
\* existed before has been released.
C1_AtMostOnePreviewHandle ==
  /\ creates - releases <= 1
  /\ creates - releases >= 0
  /\ peakLive <= 1
  /\ Cardinality(liveUrls) = creates - releases
  /\ (AcceptedSelectionRan \/ lastOp.op = "videoFileEffect") =>
       /\ creates - releases = 1
       /\ liveUrls = {creates}
       /\ videoUrlRef = creates

\* an accepted drop has replaced an earlier selection whose handle was live
C1_Witness ==
  /\ lastOp.op = "handleDrop"
  /\ lastOp.ok
  /\ releases >= 2
  /\ liveUrls # {}

\* C2: a drop of a file whose declared media type does not begin with
\* "video/", or a drop that carries no file, leaves the selected video
\* unchanged and neither creates nor releases a preview handle, in whatever
\* state it arrives.
C2_InvalidDropIgnored ==
  [][lastOp'.op = "handleDrop" =>
       \A f \in {NoFile} \cup {NextFile(t) : t \in NonVideoTypes} :
         handleDrop(f) =>
           UNCHANGED <<videoFile, creates, releases, liveUrls, videoUrlRef, videoSrc>>]_vars

\* a drop was rejected while a video was selected and a request was in flight
C2_Witness ==
  /\ lastOp.op = "handleDrop"
  /\ ~lastOp.ok
  /\ videoFile # NoFile
  /\ loading

\* C3: analyzeForm invoked while no video file is selected issues no request
\* and leaves loading, uploadProgress and the analysis result unchanged.
C3_AnalyzeWithoutFileIsNoOp ==
  [][(lastOp'.op = "analyzeForm" /\ videoFile = NoFile /\ analyzeForm) =>
       UNCHANGED <<requests, requestsIssued, loading, uploadProgress, analysis>>]_vars

\* analyzeForm has run with no video file selected
C3_Witness ==
  /\ lastOp.op = "analyzeForm"
  /\ videoFile = NoFile
  /\ requestsIssued = 0

\* C4: after a request settles, by success or by failure, loading is false
\* and uploadProgress is 0.
C4_SettledRequestResetsLoadingAndProgress ==
  lastOp.op \in {"settleSuccess", "settleFailure"} =>
    /\ loading = FALSE
    /\ uploadProgress = 0

\* a second request has settled, this one by failing
C4_Witness ==
  /\ lastOp.op = "settleFailure"
  /\ requestsIssued = 2
  /\ requests = {}

\* C5: a request that fails leaves the analysis result as it was, raises
\* exactly one notification and issues no request; a request is issued only
\* by an invocation of analyzeForm.
C5_FailureKeepsAnalysisAndAlertsOnce ==
  [][/\ lastOp'.op = "settleFailure" =>
          \A r \in requests :
            settleFailure(r) =>
              /\ analysis' = analysis
              /\ alerts' = alerts + 1
              /\ requestsIssued' = requestsIssued
              /\ requests' = requests \ {r}
     /\ requestsIssued' # requestsIssued =>
          (AnalyzeButtonClick \/ AnalyzeWithoutSelection)]_vars

\* a request failed after an earlier one had published its result
C5_Witness ==
  /\ lastOp.op = "settleFailure"
  /\ analysis # NoAnalysis
  /\ alerts = 1

\* C6 as stated: the analysis result is absent before the first request and
\* whenever a request is in flight.
C6_AbsentWhileInFlight ==
  (requestsIssued = 0 \/ loading) => analysis = NoAnalysis

\* C6 as amended: the analysis result is absent until the first successful
\* response; it changes only when a request settles successfully, and then
\* it is the body of that response; starting a request does not clear it.
C6_SetOnlyBySuccess ==
  /\ analysis = NoAnalysis
  /\ [][/\ analysis' # analysis =>
             \E r \in requests : \E data \in Responses : settleSuccess(r, data)
        /\ lastOp'.op = "settleSuccess" =>
             \A r \in requests : \A data \in Responses :
               settleSuccess(r, data) => analysis' = data
        /\ (lastOp'.op = "analyzeForm" /\ analyzeForm) => analysis' = analysis]_vars

\* a second request is in flight while the result of the first is in place
C6_Witness ==
  /\ loading
  /\ requestsIssued = 2
  /\ analysis # NoAnalysis

\* C7 as stated: after an accepted file selection the earlier report is no
\* longer shown.
C7_ReportHiddenAfterSelection ==
  AcceptedSelectionRan => ~ReportShown(analysis)

\* C7 as amended: a report, once displayed, stays displayed and unchanged
\* until a later request succeeds and replaces it; an accepted file selection
\* (picker or drop) following a successful analysis leaves it shown.
C7_ReportKeptAfterSelection ==
  [][ReportShown(analysis) =>
       /\ analysis' # analysis => lastOp'.op = "settleSuccess"
       /\ (lastOp'.op \in {"handleFileSelect", "handleDrop"} /\ videoFile' # videoFile) =>
            (ReportShown(analysis') /\ analysis' = analysis)]_vars

\* a new file was accepted after a successful analysis, report still shown
C7_Witness ==
  /\ AcceptedSelectionRan
  /\ ReportShown(analysis)
  /\ ~loading

\* C8: at most one analyze request is in flight; a request is in flight
\* exactly while loading is true, and then the Analyze button is disabled.
C8_AtMostOneRequestInFlight ==
  /\ Cardinality(requests) <= 1
  /\ loading <=> requests # {}
  /\ loading => AnalyzeDisabled(videoFile, loading)

\* the second request is in flight and has reported upload progress
C8_Witness ==
  /\ Cardinality(requests) = 1
  /\ requestsIssued = 2
  /\ uploadProgress > 0

\* C9 as stated: while loading is true neither the selected video file nor
\* the selected exercise type changes.
C9_SelectionFrozenWhileLoading ==
  [][loading => (videoFile' = videoFile /\ exerciseType' = exerciseType)]_vars

\* C9 as amended: while loading is true only the Analyze button is disabled:
\* no request starts, but the drop zone, the file picker and the exercise
\* selector still act, and a change of the selected video file or exercise
\* type leaves loading, uploadProgress, the request in flight and the
\* analysis result as they were.
C9_OnlyAnalyzeDisabledWhileLoading ==
  [][loading =>
       /\ requestsIssued' = requestsIssued
       /\ (videoFile' # videoFile \/ exerciseType' # exerciseType) =>
            UNCHANGED <<loading, uploadProgress, requests, analysis>>]_vars

\* a drop was accepted while a request was in flight
C9_Witness ==
  /\ loading
  /\ lastOp.op = "handleDrop"
  /\ lastOp.ok
  /\ uploadProgress > 0

\* C10: the request analyzeForm sends carries the video file and the
\* exercise type selected when it was invoked, and a request in flight keeps
\* its contents whatever is selected afterwards.
C10_RequestIsSnapshotOfSelection ==
  [][/\ (lastOp'.op = "analyzeForm" /\ AnalyzeButtonClick) =>
          requests' = requests \cup
            {[id |-> requestsIssued + 1,
              body |-> [video |-> videoFile, exercise_type |-> exerciseType]]}
     /\ \A r \in requests : \A q \in requests' : q.id = r.id => q = r]_vars

\* the selection has changed since the request in flight was sent
C10_Witness ==
  \E r \in requests :
    /\ r.body.video # videoFile
    /\ r.body.exercise_type # exerciseType
    /\ r.body.exercise_type # "squat"

\* C11: once the component is discarded no preview handle is live: every
\* handle created has been released, whatever selections came before.
C11_NoHandleLiveAfterUnmount ==
  ~mounted =>
    /\ liveUrls = {}
    /\ creates = releases

\* the component was discarded after two selections and their effects,
\* while the handle of the last one was live
C11_Witness ==
  /\ ~mounted
  /\ lastOp.op = "unmount"
  /\ lastOp.ok
  /\ creates = 4
  /\ selections = 2

\* a field is present and non-empty
PresentNonEmpty(v) ==
  CASE v.kind = "undefined" -> FALSE
    [] v.kind = "string" -> v.text # ""
    [] v.kind = "array" -> v.items # <<>>
    [] v.kind = "object" -> v.entries # <<>>

\* C12: each section of the report is rendered if and only if its field is
\* present and non-empty, independently of the others; an empty
\* detailed_breakdown suppresses its section, and no field suppresses the
\* whole report.
C12_SectionShownIffNonEmpty ==
  output.fn = "render" =>
    /\ output.view.report
    /\ output.view.whats_right = PresentNonEmpty(input.analysis.whats_right)
    /\ output.view.corrections_needed = PresentNonEmpty(input.analysis.corrections_needed)
    /\ output.view.detailed_breakdown = PresentNonEmpty(input.analysis.detailed_breakdown)
    /\ output.view.improvement_tips = PresentNonEmpty(input.analysis.improvement_tips)
    /\ output.view.overlay_url = PresentNonEmpty(input.analysis.overlay_url)

\* C13 as stated: a progress report sets uploadProgress to
\* floor(bytes_sent * 100 / bytes_total).
C13_ProgressIsFloor ==
  output.fn = "percentCompleted" =>
    output.value = (input.loaded * 100) \div input.total

\* C13 as amended: a progress report with 0 <= bytes_sent <= bytes_total and
\* bytes_total known sets uploadProgress to bytes_sent * 100 / bytes_total
\* rounded to the nearest integer, a half rounded up; it lies in 0..100.
C13_ProgressIsRounded ==
  output.fn = "percentCompleted" =>
    /\ 2 * input.total * output.value - input.total <= 200 * input.loaded
    /\ 200 * input.loaded < 2 * input.total * output.value + input.total
    /\ output.value \in 0..100

\* two bytes of three sent: 66.67 is reported as 67
C13_Witness ==
  /\ output.fn = "percentCompleted"
  /\ input.loaded = 2
  /\ input.total = 3
  /\ output.value = 67

\* C14: in every reachable state uploadProgress is an integer in 0..100, also
\* after a progress event whose total size is unknown, and it is 0 when a
\* request has just been started.
C14_ProgressWithinBounds ==
  /\ uploadProgress \in 0..100
  /\ lastOp.op = "analyzeForm" /\ lastOp.ok => uploadProgress = 0

\* the parts of C14 the code does keep: 0 at the start of each request, 0
\* whenever no request is in flight, and 0..100 as long as no progress event
\* of unknown total has arrived
C14_ProgressWithinBoundsKnownTotal ==
  /\ lastOp.op = "analyzeForm" /\ lastOp.ok => uploadProgress = 0
  /\ ~loading => uploadProgress = 0
  /\ uploadProgress \in (0..100) \cup {NaN, Infinity}

\* the colour class of each score band
BandClass(band) ==
  CASE band = "high" -> "text-green-600"
    [] band = "medium" -> "text-yellow-600"
    [] band = "low" -> "text-red-600"

\* the band of a score as the contract states it
Band(score) ==
  IF score >= 80 THEN "high"
  ELSE IF 60 <= score /\ score < 80 THEN "medium"
  ELSE "low"

\* C15: for every integer score in 0..100 the band is high from 80, medium
\* from 60 to 79 and low below 60, and the overall score and every aspect
\* score of the breakdown are coloured by that same mapping.
C15_ScoreBands ==
  output.fn = "getScoreColor" =>
    /\ output.overall = BandClass(Band(input.score))
    /\ output.aspect = BandClass(Band(input.score))

\* the boundary 80 was coloured as high in both places
C15_Witness ==
  /\ output.fn = "getScoreColor"
  /\ input.score = 80
  /\ output.overall = "text-green-600"
  /\ output.aspect = "text-green-600"

\* the classes of the three named severities, per place
NamedCardClasses ==
  [critical |-> "bg-red-100 border-red-400 text-red-700",
   warning |-> "bg-yellow-100 border-yellow-400 text-yellow-700",
   info |-> "bg-blue-100 border-blue-400 text-blue-700"]

NamedBadgeClasses ==
  [critical |-> "bg-red-200 text-red-800",
   warning |-> "bg-yellow-200 text-yellow-800",
   info |-> "bg-blue-200 text-blue-800"]

\* a total mapping in the sense of C16: a named severity gets its own class,
\* any other value gets a class that is none of the three named ones
TotalWithNeutralDefault(severity, class, named) ==
  /\ severity = Str("critical") => class = named.critical
  /\ severity = Str("warning") => class = named.warning
  /\ severity = Str("info") => class = named.info
  /\ severity \notin {Str("critical"), Str("warning"), Str("info")} =>
       class \notin {named.critical, named.warning, named.info}

\* C16: in every place the severity of a correction is styled, "critical",
\* "warning" and "info" get their own class and every other or missing
\* severity gets the neutral class, never one of the three named classes.
C16_SeverityClassTotal ==
  output.fn = "getSeverityColor" =>
    /\ TotalWithNeutralDefault(input.correction.severity, output.card, NamedCardClasses)
    /\ TotalWithNeutralDefault(input.correction.severity, output.badge, NamedBadgeClasses)

\* the part of C16 about the card alone, which getSeverityColor keeps
C16_CardClassTotal ==
  output.fn = "getSeverityColor" =>
    /\ TotalWithNeutralDefault(input.correction.severity, output.card, NamedCardClasses)
    /\ input.correction.severity \notin {Str("critical"), Str("warning"), Str("info")} =>
         output.card = "bg-gray-100 border-gray-400 text-gray-700"

====
